---------------------------- MODULE Spec2Model ----------------------------
(***************************************************************************)
(* Model of the polling core of the Cursor Cloud Agents client             *)
(* (cursor-api.mjs): pollAgents (multi-job wait) and pollAgent (single-job *)
(* wait), with getAgent as the boundary to the remote service.             *)
(*                                                                         *)
(* One call of one operation is modelled per behaviour.  The steps are the *)
(* synchronous segments of the async functions between two awaits.         *)
(***************************************************************************)
EXTENDS Integers, Sequences, FiniteSets, TLC

(***************************************************************************)
(* Bounds of the model.                                                    *)
(***************************************************************************)
MaxIds == 2          \* longest requested ID list
MaxTimeout == 2      \* largest timeoutMs (clock units)
MaxInterval == 2     \* largest intervalMs (clock units)
MaxDelay == 1        \* longest time a fetch round or a late timer adds

(***************************************************************************)
(* Values.                                                                 *)
(***************************************************************************)
\* Agent IDs are opaque strings; the code only compares them for equality
\* (Map keys), so the requested lists are taken up to renaming: the first
\* occurrences appear in the order of IdOrder.
IdOrder == <<"A", "B", "C">>

IDS == {IdOrder[i] : i \in 1..Len(IdOrder)}

IdIndex(id) == CHOOSE i \in 1..Len(IdOrder) : IdOrder[i] = id

FirstOccurrencesInOrder(s) ==
    \A i \in 1..Len(s) :
        \/ IdIndex(s[i]) = 1
        \/ \E j \in 1..(i-1) : IdIndex(s[j]) >= IdIndex(s[i]) - 1

\* The requested lists: every list of at most MaxIds IDs, and the request
\* for all the IDs of IdOrder.
IdLists ==
    {s \in UNION {[1..n -> IDS] : n \in 0..MaxIds} : FirstOccurrencesInOrder(s)}
        \cup {IdOrder}

\* Variant of TERMINAL_STATUSES: an unrecognised status ends the wait too.
TERMINAL_STATUSES_AndExpired == {"FINISHED", "STOPPED", "FAILED", "EXPIRED"}

\* const TERMINAL_STATUSES = new Set(["FINISHED", "STOPPED", "FAILED"])
TERMINAL_STATUSES == {"FINISHED", "STOPPED", "FAILED"}

\* Statuses a fetched agent can carry: the documented ones, a string the
\* client does not know ("EXPIRED") and a missing field ("undefined").
Statuses == TERMINAL_STATUSES \cup {"CREATING", "RUNNING", "EXPIRED", "undefined"}

\* A parsed agent object, as returned by request() for GET /v0/agents/:id.
Agent(id, s) == [kind |-> "object", id |-> id, status |-> s]

\* request() returns null when a success response has a body that does not
\* parse as JSON (data = null, then return data).
NullValue == [kind |-> "null", id |-> "undefined", status |-> "undefined"]

\* { id, status: "UNKNOWN" }
Placeholder(id) == [kind |-> "object", id |-> id, status |-> "UNKNOWN"]

\* Reasons a getAgent promise rejects with: the transport error and the
\* error built from a non-ok response.
FetchErrors == {"NetworkError", "HttpError"}

\* Entries of the array Promise.allSettled resolves to; InFlight marks a
\* promise that has not settled yet.
InFlight == [status |-> "pending", value |-> NullValue, reason |-> "none"]

Fulfilled(v) == [status |-> "fulfilled", value |-> v, reason |-> "none"]

Rejected(e) == [status |-> "rejected", value |-> NullValue, reason |-> e]

\* The ways one call getAgent(apiKey, id) can settle.
getAgent(id) ==
    {Rejected(e) : e \in FetchErrors}
        \cup {Fulfilled(Agent(id, s)) : s \in Statuses}
        \cup {Fulfilled(NullValue)}

(***************************************************************************)
(* The Remote Job Client: request() and the ten functions built on it.     *)
(***************************************************************************)
\* if (params.webhookSecret.length < 32)
MinSecretLength == 32

\* Math.min(limit, 100)
MaxLimit == 100

\* listAgents(apiKey, limit = 20, cursor)
DefaultLimit == 20

ClientFns ==
    {"launchAgent", "listAgents", "getAgent", "getAgentConversation",
     "addFollowUp", "stopAgent", "deleteAgent", "getApiKeyInfo", "listModels",
     "listRepositories"}

\* The method each function passes to request().
Method(f) ==
    CASE f \in {"launchAgent", "addFollowUp", "stopAgent"} -> "POST"
      [] f = "deleteAgent" -> "DELETE"
      [] OTHER -> "GET"

\* The path each function passes to request().
Path(f) ==
    CASE f \in {"launchAgent", "listAgents"} -> "/v0/agents"
      [] f \in {"getAgent", "deleteAgent"} -> "/v0/agents/:id"
      [] f = "getAgentConversation" -> "/v0/agents/:id/conversation"
      [] f = "addFollowUp" -> "/v0/agents/:id/followup"
      [] f = "stopAgent" -> "/v0/agents/:id/stop"
      [] f = "getApiKeyInfo" -> "/v0/me"
      [] f = "listModels" -> "/v0/models"
      [] OTHER -> "/v0/repositories"

\* params.webhookSecret: not given, or a string of some length.
NoSecret == [given |-> FALSE, length |-> 0]

Secrets ==
    {NoSecret} \cup
    {[given |-> TRUE, length |-> n] :
        n \in {0, 1, MinSecretLength - 1, MinSecretLength, MinSecretLength + 1}}

\* JavaScript truthiness of the secret: undefined and "" are falsy.
Truthy(secret) == secret.given /\ secret.length > 0

\* The limit argument of listAgents: <<>> when it is left out.
Limits ==
    {<<>>} \cup
    {<<n>> : n \in {-5, 0, 1, DefaultLimit, MaxLimit - 1, MaxLimit,
                    MaxLimit + 1, 2 * MaxLimit + 50}}

NoInput == [webhookUrl |-> FALSE, webhookSecret |-> NoSecret, limit |-> <<>>]

\* The parameters that matter to each function.
Inputs(f) ==
    CASE f = "launchAgent" ->
            {[webhookUrl |-> u, webhookSecret |-> x, limit |-> <<>>] :
                u \in BOOLEAN, x \in Secrets}
      [] f = "listAgents" ->
            {[webhookUrl |-> FALSE, webhookSecret |-> NoSecret, limit |-> l] :
                l \in Limits}
      [] OTHER -> {NoInput}

\* What a request carried: the webhook part of the body of launchAgent and
\* the limit query parameter of listAgents.
NothingSent == [issued |-> FALSE, webhook |-> "none", limit |-> <<>>]

\* Values JSON.parse can deliver; "" stands for a field that is missing.
JsonNull == [kind |-> "null", id |-> "", message |-> "", error |-> ""]

JsonObject(id, m, e) == [kind |-> "object", id |-> id, message |-> m, error |-> e]

\* {}
EmptyObject == JsonObject("", "", "")

\* Response bodies, as the text response.text() resolves to.
BodyTexts ==
    {"", "<html>", "null", "{id:A}", "{message:m}", "{error:e}",
     "{message:m,error:e}"}

\* try { data = JSON.parse(text) } catch { data = null }
JSONparse(text) ==
    CASE text = "null" -> JsonNull
      [] text = "{id:A}" -> JsonObject("A", "", "")
      [] text = "{message:m}" -> JsonObject("", "m", "")
      [] text = "{error:e}" -> JsonObject("", "", "e")
      [] text = "{message:m,error:e}" -> JsonObject("", "m", "e")
      [] OTHER -> JsonNull

\* Whether JSON.parse(text) returns instead of throwing.
Parses(text) == text \notin {"", "<html>"}

StatusCodes == {200, 202, 204, 400, 401, 403, 404, 429, 500}

\* response.ok
Ok(code) == code >= 200 /\ code <= 299

\* `${response.status}`
CodeText(code) ==
    CASE code = 200 -> "200" [] code = 202 -> "202" [] code = 204 -> "204"
      [] code = 400 -> "400" [] code = 401 -> "401" [] code = 403 -> "403"
      [] code = 404 -> "404" [] code = 429 -> "429" [] OTHER -> "500"

\* What fetch(url, init) settles with: a rejection, or a response whose
\* body response.text() then delivers (read) or fails to deliver.  A 204
\* response has no body.
TransportFailure == [reached |-> FALSE, code |-> 0, text |-> "", read |-> FALSE]

NoResponse == [reached |-> FALSE, code |-> -1, text |-> "", read |-> FALSE]

Responses ==
    {TransportFailure}
        \cup {[reached |-> TRUE, code |-> c, text |-> t, read |-> TRUE] :
                 c \in StatusCodes \ {204}, t \in BodyTexts}
        \cup {[reached |-> TRUE, code |-> c, text |-> "", read |-> FALSE] :
                 c \in StatusCodes \ {204}}
        \cup {[reached |-> TRUE, code |-> 204, text |-> "", read |-> TRUE]}

\* Errors: `status` and `body` are <<>> when the property was never set.
Error(name, message, status, body) ==
    [name |-> name, message |-> message, status |-> status, body |-> body]

NoError == Error("none", <<>>, <<>>, <<>>)

NotSettled == [status |-> "pending", value |-> JsonNull, err |-> NoError]

Resolves(v) == [status |-> "fulfilled", value |-> v, err |-> NoError]

Throws(e) == [status |-> "rejected", value |-> JsonNull, err |-> e]

\* Variant of BaseMessage: the raw text is preferred to the parsed fields.
BaseMessageTextFirst(data, text, code) ==
    IF text # "" THEN <<text>>
    ELSE IF data.kind = "object" /\ data.message # "" THEN <<data.message>>
    ELSE IF data.kind = "object" /\ data.error # "" THEN <<data.error>>
    ELSE <<"HTTP ", CodeText(code)>>

\* data?.message || data?.error || text || `HTTP ${response.status}`
BaseMessage(data, text, code) ==
    IF data.kind = "object" /\ data.message # "" THEN <<data.message>>
    ELSE IF data.kind = "object" /\ data.error # "" THEN <<data.error>>
    ELSE IF text # "" THEN <<text>>
    ELSE <<"HTTP ", CodeText(code)>>

\* The if / else if chain over response.status that rewrites err.message.
Annotated(code, msg) ==
    CASE code = 401 ->
            <<"Authentication failed: ">> \o msg \o <<". Check CURSOR_API_KEY.">>
      [] code = 403 ->
            <<"Forbidden: ">> \o msg
                \o <<". Ensure the GitHub App is installed on this repo.">>
      [] code = 404 ->
            <<"Not found: ">> \o msg \o <<". Agent may have been deleted.">>
      [] code = 429 ->
            <<"Rate limit exceeded: ">> \o msg \o <<". Back off and retry.">>
      [] OTHER -> msg

\* Variant of request: a parse failure of a success body is thrown.
requestThrowsOnParse(method, path, resp) ==
    IF ~resp.reached
    THEN Throws(Error("Error", <<"Network error calling ", method, " ", path,
                                 ": ", "fetch failed">>, <<>>, <<>>))
    ELSE IF resp.code = 204 THEN Resolves(EmptyObject)
    ELSE IF ~resp.read
    THEN Throws(Error("TypeError", <<"terminated">>, <<>>, <<>>))
    ELSE IF ~Parses(resp.text)
    THEN Throws(Error("SyntaxError", <<"Unexpected end of JSON input">>,
                      <<>>, <<>>))
    ELSE IF ~Ok(resp.code)
    THEN Throws(Error("Error",
                      Annotated(resp.code,
                                BaseMessage(JSONparse(resp.text), resp.text,
                                            resp.code)),
                      <<resp.code>>, <<JSONparse(resp.text)>>))
    ELSE Resolves(JSONparse(resp.text))

\* request(apiKey, method, path, body), given what fetch settled with.
request(method, path, resp) ==
    IF ~resp.reached
    THEN Throws(Error("Error", <<"Network error calling ", method, " ", path,
                                 ": ", "fetch failed">>, <<>>, <<>>))
    ELSE IF resp.code = 204 THEN Resolves(EmptyObject)
    ELSE IF ~resp.read
    THEN Throws(Error("TypeError", <<"terminated">>, <<>>, <<>>))
    ELSE LET data == JSONparse(resp.text) IN
         IF ~Ok(resp.code)
         THEN Throws(Error("Error",
                           Annotated(resp.code,
                                     BaseMessage(data, resp.text, resp.code)),
                           <<resp.code>>, <<data>>))
         ELSE Resolves(data)

\* Variant of LimitParam: the limit is passed through.
LimitParamUnclamped(limit) == limit

\* String(Math.min(limit, 100)), with the default of the parameter.
LimitParam(limit) ==
    LET l == IF limit = <<>> THEN DefaultLimit ELSE limit[1]
    IN  <<IF l < MaxLimit THEN l ELSE MaxLimit>>

(***************************************************************************)
(* The command line: cursor-team.mjs.                                      *)
(***************************************************************************)
\* Largest number of tasks in --tasks.
MaxTasks == 2

\* Object.keys(COMMANDS)
COMMANDS ==
    {"launch", "team", "status", "team-status", "conversation", "followup",
     "stop", "delete", "list", "models", "repos", "poll", "whoami"}

\* process.argv[2]: a command, nothing (""), a help flag, or another word.
Argv == COMMANDS \cup {"", "--help", "-h", "frobnicate"}

\* Commands that call requireArg.
WithRequiredArgs ==
    {"launch", "team", "status", "team-status", "conversation", "followup",
     "stop", "delete", "poll"}

\* The value of --tasks or --ids: text that is not JSON, JSON that is not an
\* array, or an array.
NoList == [json |-> "none", items |-> <<>>]

\* --tasks: each task is told by whether it has a prompt.
TaskLists ==
    {[json |-> "invalid", items |-> <<>>], [json |-> "notArray", items |-> <<>>]}
        \cup {[json |-> "array", items |-> t] :
                 t \in UNION {[1..n -> BOOLEAN] : n \in 0..MaxTasks}}

\* --ids
IdArgs ==
    {[json |-> "invalid", items |-> <<>>], [json |-> "notArray", items |-> <<>>]}
        \cup {[json |-> "array", items |-> l] : l \in IdLists \cup {<<>>}}

NoCliInput == [apiKey |-> FALSE, args |-> FALSE, list |-> NoList]

\* apiKey: CURSOR_API_KEY is set; args: every option the command requires
\* is given; list: the value of --tasks or --ids.
CliInputs(c) ==
    [apiKey : BOOLEAN,
     args : IF c \in WithRequiredArgs THEN BOOLEAN ELSE {TRUE},
     list : CASE c = "team" -> TaskLists
              [] c \in {"team-status", "poll"} -> IdArgs
              [] OTHER -> {NoList}]

\* Messages of the errors a command meets.
MissingKey == "CURSOR_API_KEY environment variable is not set."

MissingArg == "Missing required argument"

InvalidJson == "Invalid JSON"

NotAnArray == "must be a non-empty JSON array"

MissingPrompt == "is missing a \"prompt\" field"

UnknownCommand == "Unknown command"

RemoteFailure == "message of the rejected client call"

NullDeref == "Cannot read properties of null"

\* Variant of Validation: the prompt of the first task only is looked at.
ValidationFirstTaskOnly(c, in) ==
    LET key  == IF in.apiKey THEN "" ELSE MissingKey
        arg  == IF c \in WithRequiredArgs /\ ~in.args THEN MissingArg ELSE ""
        list == IF c \notin {"team", "team-status", "poll"} THEN ""
                ELSE IF in.list.json = "invalid" THEN InvalidJson
                ELSE IF in.list.json = "notArray" \/ in.list.items = <<>>
                THEN NotAnArray
                ELSE IF c = "team" /\ ~in.list.items[1]
                THEN MissingPrompt
                ELSE ""
        first == IF c = "poll"
                 THEN IF arg # "" THEN arg ELSE key
                 ELSE IF key # "" THEN key ELSE arg
    IN  IF first # "" THEN first ELSE list

\* The checks of a command before its first client call, in the order of
\* the code: the message of the first one that fails, "" when all pass.
Validation(c, in) ==
    LET key  == IF in.apiKey THEN "" ELSE MissingKey
        arg  == IF c \in WithRequiredArgs /\ ~in.args THEN MissingArg ELSE ""
        list == IF c \notin {"team", "team-status", "poll"} THEN ""
                ELSE IF in.list.json = "invalid" THEN InvalidJson
                ELSE IF in.list.json = "notArray" \/ in.list.items = <<>>
                THEN NotAnArray
                ELSE IF c = "team"
                        /\ \E i \in 1..Len(in.list.items) : ~in.list.items[i]
                THEN MissingPrompt
                ELSE ""
        first == IF c = "poll"
                 THEN IF arg # "" THEN arg ELSE key
                 ELSE IF key # "" THEN key ELSE arg
    IN  IF first # "" THEN first ELSE list

\* How many client calls the command makes once its checks passed.
CallCount(c, in) ==
    IF c \in {"team", "team-status"} THEN Len(in.list.items) ELSE 1

\* How a client call of the command can settle: with an object, with null
\* (request on a body that is not JSON), or by rejecting.  pollAgents
\* resolves with an array and rejects on a null payload only.  For the
\* fetches of `team-status` the object is told by the status it carries.
CallOutcomes(c) ==
    CASE c = "poll" -> {"object", "rejected"}
      [] c = "team-status" -> Statuses \cup {"null", "rejected"}
      [] OTHER -> {"object", "null", "rejected"}

\* What the process has done when it exits.
Exit(out, err, code) == [out |-> out, err |-> err, code |-> code]

\* Variant of fatal: the payload is printed and the exit code is 0.
fatalExitZero(msg) == Exit(<<>>, <<[error |-> msg]>>, 0)

\* console.error(JSON.stringify({ error: msg })); process.exit(1)
fatal(msg) == Exit(<<>>, <<[error |-> msg]>>, 1)

\* console.log(JSON.stringify(data, null, 2)), and the handler returns
output(data) == Exit(<<data>>, <<>>, 0)

\* One entry of the `agents` array a command prints.
Entry(success, status, err) ==
    [success |-> success, status |-> status, error |-> err]

Printed(c, summary, agents) ==
    [command |-> c, summary |-> summary, agents |-> agents]

\* Commands that read a field of the value their call resolved with.
ReadsResult == {"launch", "status", "followup", "stop", "delete"}

\* A command with one client call, `o` being how that call settled; a
\* rejection, or a TypeError of the handler, reaches the catch of main.
cmdSingle(c, o) ==
    IF o = "rejected" THEN fatal(RemoteFailure)
    ELSE IF o = "null" /\ c \in ReadsResult THEN fatal(NullDeref)
    ELSE output(Printed(c, <<>>, <<Entry(TRUE, o, "")>>))

\* cmdPoll after `await pollAgents(...)`.
cmdPoll(o) ==
    IF o = "rejected" THEN fatal(NullDeref)
    ELSE output(Printed("poll", <<>>, <<Entry(TRUE, o, "")>>))

\* agent.id of the agent the i-th launch created: the service gives every
\* agent an ID of its own.
LaunchedId(i) == <<"agent", i>>

\* The entry of a launch that succeeded; a failed one carries no id.
Launched(i) ==
    [success |-> TRUE, status |-> "object", error |-> "", id |-> LaunchedId(i)]

\* Variant of cmdTeam: Promise.all without the .catch per launch, so the
\* first failure ends the command.
cmdTeamFailFast(cs) ==
    IF \E i \in 1..Len(cs) : cs[i] # "object" THEN fatal(RemoteFailure)
    ELSE output([command |-> "team",
                 summary |-> [total |-> Len(cs), launched |-> Len(cs),
                              failed |-> 0],
                 agents |-> [i \in 1..Len(cs) |-> Launched(i)],
                 ids |-> [i \in 1..Len(cs) |-> LaunchedId(i)]])

\* cmdTeam after `await Promise.all(launches)`: .then / .catch per launch.
cmdTeam(cs) ==
    LET results == [i \in 1..Len(cs) |->
                      CASE cs[i] = "object" -> Launched(i)
                        [] cs[i] = "null" -> Entry(FALSE, "", NullDeref)
                        [] OTHER -> Entry(FALSE, "", RemoteFailure)]
        successCount == Cardinality({i \in 1..Len(cs) : results[i].success})
        failCount == Cardinality({i \in 1..Len(cs) : ~results[i].success})
        successes == SelectSeq(results, LAMBDA r : r.success)
    IN  output([command |-> "team",
                summary |-> [total |-> Len(cs), launched |-> successCount,
                             failed |-> failCount],
                agents |-> results,
                ids |-> [k \in 1..Len(successes) |-> successes[k].id]])

\* One entry of the `agents` array of `team-status`: { id, status, ... },
\* with `error` for a fetch that failed.
StatusEntry(id, status, err) == [id |-> id, status |-> status, error |-> err]

\* cmdTeamStatus after `await Promise.allSettled(...)`: `a.id` throws a
\* TypeError when a fetch was fulfilled with null.
cmdTeamStatus(idList, cs) ==
    IF \E i \in 1..Len(cs) : cs[i] = "null" THEN fatal(NullDeref)
    ELSE LET agents == [i \in 1..Len(cs) |->
                          IF cs[i] = "rejected"
                          THEN StatusEntry(idList[i], "ERROR", RemoteFailure)
                          ELSE StatusEntry(idList[i], cs[i], "")]
             seen == {agents[i].status : i \in 1..Len(cs)}
             statusCounts ==
                 [st \in seen |->
                     Cardinality({i \in 1..Len(cs) : agents[i].status = st})]
         IN  output(Printed("team-status", statusCounts, agents))

VARIABLES
    op,          \* the exported function that was called
    ids,         \* pollAgents: ids; pollAgent: <<id>>
    intervalMs,
    timeoutMs,
    now,         \* Date.now()
    deadline,
    pc,          \* position of the async function
    results,     \* the Map of pollAgents: id -> stored value
    pending,     \* the array the current fetches were issued for
    checks,      \* the settled/unsettled promises of the current fan-out
    result,      \* value the returned promise resolved with
    error,       \* reason the returned promise rejected with
    lastStatus,  \* status named in the timeout message of pollAgent
    sleeps,      \* number of sleep(intervalMs) calls completed
    ticks,       \* number of loop bodies entered
    fetched,     \* id -> number of getAgent calls issued
    fetchedLate, \* id -> number of getAgent calls issued at or after deadline
    resolvedAt,  \* id -> tick in which results.set(id, ..) first ran
    fn,          \* client function that was called
    input,       \* its parameters
    netCalls,    \* number of fetch(url, init) calls made
    sent,        \* what the request carried
    response,    \* what fetch settled with
    outcome,     \* how the promise of the client function settled
    cmd,         \* process.argv[2]
    cliInput,    \* environment and options of the command line
    calls,       \* the promises of the client calls the command made
    stdout,      \* what console.log printed
    stderr,      \* what console.error printed
    exitCode     \* exit code of the process, -1 while it runs

\* The variables of the two polling functions.
pollVars == <<ids, intervalMs, timeoutMs, now, deadline, results, pending,
              checks, result, error, lastStatus, sleeps, ticks, fetched,
              fetchedLate, resolvedAt>>

\* The variables of one call of a Remote Job Client function.
clientVars == <<fn, input, netCalls, sent, response, outcome>>

\* The variables of one run of the command line.
cliVars == <<cmd, cliInput, calls, stdout, stderr, exitCode>>

\* The variables the polling functions do not touch.
restVars == <<clientVars, cliVars>>

vars == <<op, pc, pollVars, restVars>>

\* The variables that only record what happened.
ghost == <<sleeps, ticks, fetched, fetchedLate, resolvedAt>>

EmptyMap == [x \in {} |-> NullValue]

MapSet(m, k, v) == [x \in (DOMAIN m) \cup {k} |-> IF x = k THEN v ELSE m[x]]

\* Variant of NotInResults: resolved IDs are fetched again.
NotInResultsRefetchAll(res) ==
    IF DOMAIN res = {ids[i] : i \in 1..Len(ids)} THEN <<>> ELSE ids

\* Variant of NotInResults: one pending ID at a time.
NotInResultsFirstOnly(res) ==
    LET p == SelectSeq(ids, LAMBDA id : id \notin DOMAIN res)
    IN  IF p = <<>> THEN p ELSE <<p[1]>>

\* ids.filter((id) => !results.has(id))
NotInResults(res) == SelectSeq(ids, LAMBDA id : id \notin DOMAIN res)

Count(s, id) == Cardinality({i \in 1..Len(s) : s[i] = id})

\* Issuing one getAgent per element of the array p.
Issue(p) ==
    /\ pending' = p
    /\ checks' = [i \in 1..Len(p) |-> InFlight]
    /\ fetched' = [id \in IDS |-> fetched[id] + Count(p, id)]
    /\ fetchedLate' = [id \in IDS |->
                         IF now >= deadline THEN fetchedLate[id] + Count(p, id)
                         ELSE fetchedLate[id]]

AllSettled == \A i \in 1..Len(checks) : checks[i].status # "pending"

\* No client function is running.
ClientIdle ==
    /\ fn = "none"
    /\ input = NoInput
    /\ netCalls = 0
    /\ sent = NothingSent
    /\ response = NoResponse
    /\ outcome = NotSettled

\* The command line is not running.
CliIdle ==
    /\ cmd = "none"
    /\ cliInput = NoCliInput
    /\ calls = <<>>
    /\ stdout = <<>>
    /\ stderr = <<>>
    /\ exitCode = -1

\* No polling function is running.
PollIdle ==
    /\ ids = <<>>
    /\ intervalMs = 1
    /\ timeoutMs = 0
    /\ now = 0
    /\ deadline = 0
    /\ results = EmptyMap
    /\ pending = <<>>
    /\ checks = <<>>
    /\ result = <<>>
    /\ error = "none"
    /\ lastStatus = "none"
    /\ sleeps = 0
    /\ ticks = 0
    /\ fetched = [id \in IDS |-> 0]
    /\ fetchedLate = [id \in IDS |-> 0]
    /\ resolvedAt = EmptyMap

\* pollAgents(apiKey, ids, intervalMs, timeoutMs) or pollAgent(apiKey, id,
\* intervalMs, timeoutMs) was called: const deadline = Date.now() + timeoutMs
PollInit ==
    /\ op \in {"pollAgents", "pollAgent"}
    /\ ids \in IdLists
    /\ op = "pollAgent" => ids = <<"A">>
    /\ intervalMs \in 1..MaxInterval
    /\ timeoutMs \in -1..MaxTimeout
    /\ now = 0
    /\ deadline = now + timeoutMs
    /\ pc = "loop"
    /\ results = EmptyMap
    /\ pending = <<>>
    /\ checks = <<>>
    /\ result = <<>>
    /\ error = "none"
    /\ lastStatus = "none"
    /\ sleeps = 0
    /\ ticks = 0
    /\ fetched = [id \in IDS |-> 0]
    /\ fetchedLate = [id \in IDS |-> 0]
    /\ resolvedAt = EmptyMap
    /\ ClientIdle
    /\ CliIdle

\* One of the ten client functions was called.
ClientInit ==
    /\ op = "client"
    /\ pc = "called"
    /\ fn \in ClientFns
    /\ input \in Inputs(fn)
    /\ netCalls = 0
    /\ sent = NothingSent
    /\ response = NoResponse
    /\ outcome = NotSettled
    /\ PollIdle
    /\ CliIdle

\* node cursor-team.mjs <command> [options] was started.
CliInit ==
    /\ op = "cli"
    /\ pc = "main"
    /\ cmd \in Argv
    /\ cliInput \in CliInputs(cmd)
    /\ calls = <<>>
    /\ stdout = <<>>
    /\ stderr = <<>>
    /\ exitCode = -1
    /\ PollIdle
    /\ ClientIdle

Init == PollInit \/ ClientInit \/ CliInit

-----------------------------------------------------------------------------
(***************************************************************************)
(* Steps shared by both operations.                                        *)
(***************************************************************************)

\* Variant of FetchSettles: a terminal answer is stored the moment it arrives.
FetchSettlesStoresAtOnce ==
    /\ pc \in {"awaiting", "finalAwaiting"}
    /\ \E i \in 1..Len(checks) :
          /\ checks[i].status = "pending"
          /\ \E o \in getAgent(pending[i]) :
                /\ checks' = [checks EXCEPT ![i] = o]
                /\ results' =
                      IF o.status = "fulfilled" /\ o.value.kind = "object"
                            /\ o.value.status \in TERMINAL_STATUSES
                      THEN MapSet(results, pending[i], o.value)
                      ELSE results
    /\ UNCHANGED <<op, ids, intervalMs, timeoutMs, now, deadline, pc,
                   pending, result, error, lastStatus, ghost>>
    /\ UNCHANGED restVars

\* One in-flight getAgent promise settles; siblings settle in any order.
FetchSettles ==
    /\ pc \in {"awaiting", "finalAwaiting"}
    /\ \E i \in 1..Len(checks) :
          /\ checks[i].status = "pending"
          /\ \E o \in getAgent(pending[i]) :
                checks' = [checks EXCEPT ![i] = o]
    /\ UNCHANGED <<op, ids, intervalMs, timeoutMs, now, deadline, pc, results,
                   pending, result, error, lastStatus, ghost>>
    /\ UNCHANGED restVars

\* Variant of SleepDone: the timer fires after half the interval.
SleepDoneEarly ==
    /\ pc = "sleeping"
    /\ \E late \in 0..MaxDelay : now' = now + (intervalMs + 1) \div 2 + late
    /\ sleeps' = sleeps + 1
    /\ pc' = "loop"
    /\ UNCHANGED <<op, ids, intervalMs, timeoutMs, deadline, results, pending,
                   checks, result, error, lastStatus, ticks, fetched,
                   fetchedLate, resolvedAt>>
    /\ UNCHANGED restVars

\* await sleep(intervalMs): the timer fires after at least intervalMs.
SleepDone ==
    /\ pc = "sleeping"
    /\ \E late \in 0..MaxDelay : now' = now + intervalMs + late
    /\ sleeps' = sleeps + 1
    /\ pc' = "loop"
    /\ UNCHANGED <<op, ids, intervalMs, timeoutMs, deadline, results, pending,
                   checks, result, error, lastStatus, ticks, fetched,
                   fetchedLate, resolvedAt>>
    /\ UNCHANGED restVars

-----------------------------------------------------------------------------
(***************************************************************************)
(* pollAgents                                                              *)
(***************************************************************************)

\* Variant of PollAgentsTick: `<=` instead of `<` in the while condition.
PollAgentsTickAtDeadline ==
    /\ op = "pollAgents"
    /\ pc = "loop"
    /\ now <= deadline
    /\ NotInResults(results) # <<>>
    /\ Issue(NotInResults(results))
    /\ ticks' = ticks + 1
    /\ pc' = "awaiting"
    /\ UNCHANGED <<op, ids, intervalMs, timeoutMs, now, deadline, results,
                   result, error, lastStatus, sleeps, resolvedAt>>
    /\ UNCHANGED restVars

\* while (Date.now() < deadline) with a non-empty pending: the fan-out.
PollAgentsTick ==
    /\ op = "pollAgents"
    /\ pc = "loop"
    /\ now < deadline
    /\ NotInResults(results) # <<>>
    /\ Issue(NotInResults(results))
    /\ ticks' = ticks + 1
    /\ pc' = "awaiting"
    /\ UNCHANGED <<op, ids, intervalMs, timeoutMs, now, deadline, results,
                   result, error, lastStatus, sleeps, resolvedAt>>
    /\ UNCHANGED restVars

\* The loop is left: by the while condition, or by `if (pending.length === 0) break`.
PollAgentsLoopExit ==
    /\ op = "pollAgents"
    /\ pc = "loop"
    /\ \/ ~(now < deadline)
       \/ NotInResults(results) = <<>>
    /\ pc' = "final"
    /\ UNCHANGED <<op, ids, intervalMs, timeoutMs, now, deadline, results,
                   pending, checks, result, error, lastStatus, ghost>>
    /\ UNCHANGED restVars

\* for (let i = 0; i < pending.length; i++) { ... results.set(pending[i], agent) }
\* A null value makes `agent.status` throw a TypeError, which ends the loop.
RECURSIVE TickLoop(_, _)
TickLoop(res, i) ==
    IF i > Len(pending) THEN [results |-> res, threw |-> FALSE]
    ELSE LET c == checks[i] IN
         IF c.status = "fulfilled"
         THEN IF c.value.kind = "null"
              THEN [results |-> res, threw |-> TRUE]
              ELSE IF c.value.status \in TERMINAL_STATUSES
                   THEN TickLoop(MapSet(res, pending[i], c.value), i + 1)
                   ELSE TickLoop(res, i + 1)
         ELSE TickLoop(res, i + 1)

\* Variant of AllResolvedCheck: `>` instead of `===`.
AllResolvedCheckGreater(res) == Cardinality(DOMAIN res) > Len(ids)

\* if (results.size === ids.length) break;
AllResolvedCheck(res) == Cardinality(DOMAIN res) = Len(ids)

\* Promise.allSettled of a regular tick resolved: lines 338-350.
PollAgentsTickDone ==
    /\ op = "pollAgents"
    /\ pc = "awaiting"
    /\ AllSettled
    /\ \E d \in 0..MaxDelay : now' = now + d
    /\ LET r == TickLoop(results, 1) IN
          /\ results' = r.results
          /\ resolvedAt' = [id \in DOMAIN r.results |->
                              IF id \in DOMAIN resolvedAt THEN resolvedAt[id]
                              ELSE ticks]
          /\ IF r.threw
             THEN /\ pc' = "rejected"
                  /\ error' = "TypeError"
             ELSE /\ pc' = IF AllResolvedCheck(r.results) THEN "final"
                           ELSE "sleeping"
                  /\ error' = error
    \* `pending` and `checks` are block-scoped to the loop body
    /\ pending' = <<>>
    /\ checks' = <<>>
    /\ UNCHANGED <<op, ids, intervalMs, timeoutMs, deadline, result,
                   lastStatus, sleeps, ticks, fetched, fetchedLate>>
    /\ UNCHANGED restVars

\* Variant of ReturnValue: only the resolved IDs are listed.
ReturnValueResolvedOnly(res) ==
    LET rs == SelectSeq(ids, LAMBDA id : id \in DOMAIN res)
    IN  [i \in 1..Len(rs) |-> res[rs[i]]]

\* ids.map((id) => results.get(id) || { id, status: "UNKNOWN" })
ReturnValue(res) ==
    [i \in 1..Len(ids) |->
        IF ids[i] \in DOMAIN res /\ res[ids[i]].kind # "null"
        THEN res[ids[i]]
        ELSE Placeholder(ids[i])]

\* Final sweep with something still pending: the second fan-out.
PollAgentsFinalSweep ==
    /\ op = "pollAgents"
    /\ pc = "final"
    /\ NotInResults(results) # <<>>
    /\ Issue(NotInResults(results))
    /\ pc' = "finalAwaiting"
    /\ UNCHANGED <<op, ids, intervalMs, timeoutMs, now, deadline, results,
                   result, error, lastStatus, sleeps, ticks, resolvedAt>>
    /\ UNCHANGED restVars

\* Variant of PollAgentsReturn: the return does not wait for a final sweep.
PollAgentsReturnWithoutSweep ==
    /\ op = "pollAgents"
    /\ pc = "final"
    /\ result' = ReturnValue(results)
    /\ pc' = "returned"
    /\ UNCHANGED <<op, ids, intervalMs, timeoutMs, now, deadline, results,
                   pending, checks, error, lastStatus, ghost>>
    /\ UNCHANGED restVars

\* Final sweep with nothing pending: straight to the return.
PollAgentsReturn ==
    /\ op = "pollAgents"
    /\ pc = "final"
    /\ NotInResults(results) = <<>>
    /\ result' = ReturnValue(results)
    /\ pc' = "returned"
    /\ UNCHANGED <<op, ids, intervalMs, timeoutMs, now, deadline, results,
                   pending, checks, error, lastStatus, ghost>>
    /\ UNCHANGED restVars

\* Variant of FinalLoop: a failed fetch of the final sweep is stored as a
\* record of its own.
RECURSIVE FinalLoopStoresFailures(_, _)
FinalLoopStoresFailures(res, i) ==
    IF i > Len(pending) THEN res
    ELSE IF checks[i].status = "fulfilled"
         THEN FinalLoopStoresFailures(MapSet(res, pending[i], checks[i].value),
                                      i + 1)
         ELSE FinalLoopStoresFailures(
                  MapSet(res, pending[i], Agent(pending[i], "ERROR")), i + 1)

\* Variant of FinalLoop: the final sweep's answers are dropped.
FinalLoopDropsAnswers(res, i) == res

\* for (...) if (finalChecks[i].status === "fulfilled") results.set(...)
RECURSIVE FinalLoop(_, _)
FinalLoop(res, i) ==
    IF i > Len(pending) THEN res
    ELSE IF checks[i].status = "fulfilled"
         THEN FinalLoop(MapSet(res, pending[i], checks[i].value), i + 1)
         ELSE FinalLoop(res, i + 1)

\* Promise.allSettled of the final sweep resolved: lines 359-366.
PollAgentsFinalDone ==
    /\ op = "pollAgents"
    /\ pc = "finalAwaiting"
    /\ AllSettled
    /\ \E d \in 0..MaxDelay : now' = now + d
    /\ results' = FinalLoop(results, 1)
    /\ result' = ReturnValue(FinalLoop(results, 1))
    /\ pc' = "returned"
    /\ UNCHANGED <<op, ids, intervalMs, timeoutMs, deadline, pending, checks,
                   error, lastStatus, ghost>>
    /\ UNCHANGED restVars

-----------------------------------------------------------------------------
(***************************************************************************)
(* pollAgent                                                               *)
(***************************************************************************)

\* while (Date.now() < deadline) { const agent = await getAgent(apiKey, id)
PollAgentFetch ==
    /\ op = "pollAgent"
    /\ pc = "loop"
    /\ now < deadline
    /\ Issue(ids)
    /\ ticks' = ticks + 1
    /\ pc' = "awaiting"
    /\ UNCHANGED <<op, ids, intervalMs, timeoutMs, now, deadline, results,
                   result, error, lastStatus, sleeps, resolvedAt>>
    /\ UNCHANGED restVars

\* The while condition is false: the final check is issued.
PollAgentFinalFetch ==
    /\ op = "pollAgent"
    /\ pc = "loop"
    /\ ~(now < deadline)
    /\ Issue(ids)
    /\ pc' = "finalAwaiting"
    /\ UNCHANGED <<op, ids, intervalMs, timeoutMs, now, deadline, results,
                   result, error, lastStatus, sleeps, ticks, resolvedAt>>
    /\ UNCHANGED restVars

\* Variant of PollAgentCheck: after the deadline the status is not looked at.
PollAgentCheckNoFinalLook(otherwise) ==
    LET c == checks[1] IN
    IF c.status = "rejected"
    THEN /\ pc' = "rejected"
         /\ error' = c.reason
         /\ UNCHANGED <<result, lastStatus>>
    ELSE IF c.value.kind = "null"
    THEN /\ pc' = "rejected"
         /\ error' = "TypeError"
         /\ UNCHANGED <<result, lastStatus>>
    ELSE IF otherwise = "timeout"
    THEN /\ pc' = "rejected"
         /\ error' = "Timeout"
         /\ lastStatus' = c.value.status
         /\ UNCHANGED result
    ELSE IF c.value.status \in TERMINAL_STATUSES
    THEN /\ pc' = "returned"
         /\ result' = <<c.value>>
         /\ UNCHANGED <<error, lastStatus>>
    ELSE /\ pc' = "sleeping"
         /\ UNCHANGED <<result, error, lastStatus>>

\* Variant of PollAgentCheck: a failed final check is reported as a timeout.
PollAgentCheckSwallowsFinal(otherwise) ==
    LET c == checks[1] IN
    IF c.status = "rejected" /\ otherwise = "timeout"
    THEN /\ pc' = "rejected"
         /\ error' = "Timeout"
         /\ lastStatus' = "undefined"
         /\ UNCHANGED result
    ELSE IF c.status = "rejected"
    THEN /\ pc' = "rejected"
         /\ error' = c.reason
         /\ UNCHANGED <<result, lastStatus>>
    ELSE IF c.value.kind = "null"
    THEN /\ pc' = "rejected"
         /\ error' = "TypeError"
         /\ UNCHANGED <<result, lastStatus>>
    ELSE IF c.value.status \in TERMINAL_STATUSES
    THEN /\ pc' = "returned"
         /\ result' = <<c.value>>
         /\ UNCHANGED <<error, lastStatus>>
    ELSE IF otherwise = "sleeping"
    THEN /\ pc' = "sleeping"
         /\ UNCHANGED <<result, error, lastStatus>>
    ELSE /\ pc' = "rejected"
         /\ error' = "Timeout"
         /\ lastStatus' = c.value.status
         /\ UNCHANGED result

\* Variant of PollAgentCheck: a failed fetch inside the loop is retried
\* after the sleep, as in pollAgents.
PollAgentCheckAbsorbsFailure(otherwise) ==
    LET c == checks[1] IN
    IF c.status = "rejected" /\ otherwise = "sleeping"
    THEN /\ pc' = "sleeping"
         /\ UNCHANGED <<result, error, lastStatus>>
    ELSE IF c.status = "rejected"
    THEN /\ pc' = "rejected"
         /\ error' = c.reason
         /\ UNCHANGED <<result, lastStatus>>
    ELSE IF c.value.kind = "null"
    THEN /\ pc' = "rejected"
         /\ error' = "TypeError"
         /\ UNCHANGED <<result, lastStatus>>
    ELSE IF c.value.status \in TERMINAL_STATUSES
    THEN /\ pc' = "returned"
         /\ result' = <<c.value>>
         /\ UNCHANGED <<error, lastStatus>>
    ELSE IF otherwise = "sleeping"
    THEN /\ pc' = "sleeping"
         /\ UNCHANGED <<result, error, lastStatus>>
    ELSE /\ pc' = "rejected"
         /\ error' = "Timeout"
         /\ lastStatus' = c.value.status
         /\ UNCHANGED result

\* Variant of PollAgentCheck: FINISHED is the only status that ends the wait.
PollAgentCheckFinishedOnly(otherwise) ==
    LET c == checks[1] IN
    IF c.status = "rejected"
    THEN /\ pc' = "rejected"
         /\ error' = c.reason
         /\ UNCHANGED <<result, lastStatus>>
    ELSE IF c.value.kind = "null"
    THEN /\ pc' = "rejected"
         /\ error' = "TypeError"
         /\ UNCHANGED <<result, lastStatus>>
    ELSE IF c.value.status = "FINISHED"
    THEN /\ pc' = "returned"
         /\ result' = <<c.value>>
         /\ UNCHANGED <<error, lastStatus>>
    ELSE IF otherwise = "sleeping"
    THEN /\ pc' = "sleeping"
         /\ UNCHANGED <<result, error, lastStatus>>
    ELSE /\ pc' = "rejected"
         /\ error' = "Timeout"
         /\ lastStatus' = c.value.status
         /\ UNCHANGED result

\* What pollAgent does with one settled getAgent: where it goes when the
\* status is not terminal is `otherwise`.
PollAgentCheck(otherwise) ==
    LET c == checks[1] IN
    IF c.status = "rejected"
    THEN /\ pc' = "rejected"
         /\ error' = c.reason
         /\ UNCHANGED <<result, lastStatus>>
    ELSE IF c.value.kind = "null"
    THEN /\ pc' = "rejected"
         /\ error' = "TypeError"
         /\ UNCHANGED <<result, lastStatus>>
    ELSE IF c.value.status \in TERMINAL_STATUSES
    THEN /\ pc' = "returned"
         /\ result' = <<c.value>>
         /\ UNCHANGED <<error, lastStatus>>
    ELSE IF otherwise = "sleeping"
    THEN /\ pc' = "sleeping"
         /\ UNCHANGED <<result, error, lastStatus>>
    ELSE /\ pc' = "rejected"
         /\ error' = "Timeout"
         /\ lastStatus' = c.value.status
         /\ UNCHANGED result

\* The await inside the loop resumed: lines 300-304.
PollAgentFetchDone ==
    /\ op = "pollAgent"
    /\ pc = "awaiting"
    /\ AllSettled
    /\ \E d \in 0..MaxDelay : now' = now + d
    /\ PollAgentCheck("sleeping")
    \* `agent` is block-scoped to the loop body
    /\ pending' = <<>>
    /\ checks' = <<>>
    /\ UNCHANGED <<op, ids, intervalMs, timeoutMs, deadline, results, ghost>>
    /\ UNCHANGED restVars

\* The await of the final check resumed: lines 308-314.
PollAgentFinalDone ==
    /\ op = "pollAgent"
    /\ pc = "finalAwaiting"
    /\ AllSettled
    /\ \E d \in 0..MaxDelay : now' = now + d
    /\ PollAgentCheck("timeout")
    /\ UNCHANGED <<op, ids, intervalMs, timeoutMs, deadline, results, pending,
                   checks, ghost>>
    /\ UNCHANGED restVars

-----------------------------------------------------------------------------
(***************************************************************************)
(* One call of a client function.                                          *)
(***************************************************************************)

\* launchAgent: the webhook block of lines 153-162.  The result is the
\* webhook part of the body, or "invalid" when the function throws.
Webhook(params) ==
    IF params.webhookUrl
    THEN IF Truthy(params.webhookSecret)
         THEN IF params.webhookSecret.length < MinSecretLength
              THEN "invalid"
              ELSE "url+secret"
         ELSE "url"
    ELSE "none"

\* The synchronous part of the function, up to `await fetch(url, init)`.
ClientCall ==
    /\ op = "client"
    /\ pc = "called"
    /\ IF fn = "launchAgent" /\ Webhook(input) = "invalid"
       THEN /\ outcome' = Throws(Error("Error",
                             <<"Webhook secret must be at least 32 characters">>,
                             <<>>, <<>>))
            /\ pc' = "rejected"
            /\ UNCHANGED <<netCalls, sent>>
       ELSE /\ netCalls' = netCalls + 1
            /\ sent' = [issued |-> TRUE,
                        webhook |-> IF fn = "launchAgent" THEN Webhook(input)
                                    ELSE "none",
                        limit |-> IF fn = "listAgents"
                                  THEN LimitParam(input.limit) ELSE <<>>]
            /\ pc' = "fetching"
            /\ UNCHANGED outcome
    /\ UNCHANGED <<op, fn, input, response, pollVars, cliVars>>

\* Variant of ClientSettles: a transport failure is retried once.
ClientSettlesRetrying ==
    /\ op = "client"
    /\ pc = "fetching"
    /\ \E resp \in Responses :
          /\ response' = resp
          /\ IF ~resp.reached /\ netCalls < 2
             THEN /\ netCalls' = netCalls + 1
                  /\ UNCHANGED <<outcome, pc>>
             ELSE /\ outcome' = request(Method(fn), Path(fn), resp)
                  /\ pc' = IF outcome'.status = "fulfilled" THEN "returned"
                           ELSE "rejected"
                  /\ UNCHANGED netCalls
    /\ UNCHANGED <<op, fn, input, sent, pollVars, cliVars>>

\* fetch settled: the rest of request(), whose result the function returns.
ClientSettles ==
    /\ op = "client"
    /\ pc = "fetching"
    /\ \E resp \in Responses :
          /\ response' = resp
          /\ outcome' = request(Method(fn), Path(fn), resp)
          /\ pc' = IF outcome'.status = "fulfilled" THEN "returned"
                   ELSE "rejected"
    /\ UNCHANGED <<op, fn, input, netCalls, sent, pollVars, cliVars>>

-----------------------------------------------------------------------------
(***************************************************************************)
(* One run of the command line.                                            *)
(***************************************************************************)
Exits(e) ==
    /\ stdout' = e.out
    /\ stderr' = e.err
    /\ exitCode' = e.code
    /\ pc' = "exited"

\* main up to the first await of the handler: help, unknown command, the
\* checks of the command, and the client calls it makes.
main ==
    /\ op = "cli"
    /\ pc = "main"
    /\ IF cmd \in {"", "--help", "-h"}
       THEN /\ Exits(output(Printed("usage", <<>>, <<>>)))
            /\ UNCHANGED calls
       ELSE IF cmd \notin COMMANDS
       THEN /\ Exits(fatal(UnknownCommand))
            /\ UNCHANGED calls
       ELSE IF Validation(cmd, cliInput) # ""
       THEN /\ Exits(fatal(Validation(cmd, cliInput)))
            /\ UNCHANGED calls
       ELSE /\ calls' = [i \in 1..CallCount(cmd, cliInput) |-> "pending"]
            /\ pc' = "handler"
            /\ UNCHANGED <<stdout, stderr, exitCode>>
    /\ UNCHANGED <<op, cmd, cliInput, pollVars, clientVars>>

\* One of the client calls of the command settles.
CallSettles ==
    /\ op = "cli"
    /\ pc = "handler"
    /\ \E i \in 1..Len(calls) :
          /\ calls[i] = "pending"
          /\ \E o \in CallOutcomes(cmd) : calls' = [calls EXCEPT ![i] = o]
    /\ UNCHANGED <<op, pc, cmd, cliInput, stdout, stderr, exitCode, pollVars,
                   clientVars>>

\* The await of the handler resumes: the rest of the handler and of main.
HandlerDone ==
    /\ op = "cli"
    /\ pc = "handler"
    /\ \A i \in 1..Len(calls) : calls[i] # "pending"
    /\ Exits(CASE cmd = "team" -> cmdTeam(calls)
               [] cmd = "team-status" ->
                      cmdTeamStatus(cliInput.list.items, calls)
               [] cmd = "poll" -> cmdPoll(calls[1])
               [] OTHER -> cmdSingle(cmd, calls[1]))
    /\ UNCHANGED <<op, cmd, cliInput, calls, pollVars, clientVars>>

-----------------------------------------------------------------------------
Next ==
    \/ FetchSettles
    \/ SleepDone
    \/ PollAgentsTick
    \/ PollAgentsLoopExit
    \/ PollAgentsTickDone
    \/ PollAgentsFinalSweep
    \/ PollAgentsReturn
    \/ PollAgentsFinalDone
    \/ PollAgentFetch
    \/ PollAgentFinalFetch
    \/ PollAgentFetchDone
    \/ PollAgentFinalDone
    \/ ClientCall
    \/ ClientSettles
    \/ main
    \/ CallSettles
    \/ HandlerDone

Spec == Init /\ [][Next]_vars

\* Every issued fetch settles, every timer fires and every continuation
\* runs: the event loop leaves no enabled step waiting forever.
FairSpec == Spec /\ WF_vars(Next)

TypeOK ==
    /\ pc \in {"loop", "awaiting", "sleeping", "final", "finalAwaiting",
               "called", "fetching", "returned", "rejected", "main",
               "handler", "exited"}
    /\ Len(checks) = Len(pending)
    /\ DOMAIN results \subseteq IDS

-----------------------------------------------------------------------------
(***************************************************************************)
(* Vocabulary of the properties.                                           *)
(***************************************************************************)
Done == pc \in {"returned", "rejected"}

Distinct(s) == \A i, j \in 1..Len(s) : s[i] = s[j] => i = j

Requested == {ids[i] : i \in 1..Len(ids)}

\* A settled promise that carries an agent object with a terminal status.
TerminalCheck(c) ==
    /\ c.status = "fulfilled"
    /\ c.value.kind = "object"
    /\ c.value.status \in TERMINAL_STATUSES

\* A settled promise that carries an agent object with another status.
NonTerminalCheck(c) ==
    /\ c.status = "fulfilled"
    /\ c.value.kind = "object"
    /\ c.value.status \notin TERMINAL_STATUSES

\* The values the fetches of the current fan-out delivered for id.
Delivered(id) ==
    {checks[i].value : i \in {j \in 1..Len(pending) :
                                 pending[j] = id /\ checks[j].status = "fulfilled"}}

\* The final sweep of pollAgents (or the final check of pollAgent) was
\* issued for id: regular fetches are only issued before the deadline.
SweptFinally(id) == fetchedLate[id] > 0

-----------------------------------------------------------------------------
(***************************************************************************)
(* C1. The list returned by pollAgents has one entry per requested ID, in  *)
(* request order: entry i carries the ID at position i and is either the   *)
(* value stored for that ID or its placeholder, whatever the tick in which *)
(* the IDs resolved.                                                       *)
(***************************************************************************)
C1_OrderPreserved ==
    (op = "pollAgents" /\ pc = "returned") =>
        /\ Len(result) = Len(ids)
        /\ \A i \in 1..Len(ids) :
              /\ result[i].id = ids[i]
              /\ \/ result[i] = Placeholder(ids[i])
                 \/ ids[i] \in DOMAIN results /\ result[i] = results[ids[i]]

\* Three IDs returned: the second resolved a tick before the first, the
\* third is the placeholder.
C1_Witness ==
    /\ op = "pollAgents" /\ pc = "returned"
    /\ Len(ids) = 3 /\ Distinct(ids)
    /\ {ids[1], ids[2]} \subseteq DOMAIN resolvedAt
    /\ resolvedAt[ids[2]] < resolvedAt[ids[1]]
    /\ result[3] = Placeholder(ids[3])

(***************************************************************************)
(* C2. Every entry of the list returned by pollAgents is a record with a   *)
(* terminal status or the UNKNOWN placeholder.                             *)
(***************************************************************************)
C2_TerminalOrPlaceholder ==
    (op = "pollAgents" /\ pc = "returned") =>
        \A i \in 1..Len(result) :
            \/ result[i].status \in TERMINAL_STATUSES
            \/ result[i] = Placeholder(ids[i])

(***************************************************************************)
(* C3. In every regular tick of pollAgents in which some fetch was         *)
(* rejected: nothing is raised, every pending ID with a fetch fulfilled    *)
(* with a terminal status is in the resolved mapping after the tick, the   *)
(* ID whose fetches all failed stays out of it; and every tick fetches     *)
(* every ID that is not resolved.                                          *)
(***************************************************************************)
C3_FailureNeverBlocks ==
    [][ /\ (op = "pollAgents" /\ pc = "awaiting" /\ pc' # "awaiting"
              /\ \E j \in 1..Len(checks) : checks[j].status = "rejected")
            => /\ pc' # "rejected"
               /\ \A i \in 1..Len(checks) :
                     TerminalCheck(checks[i]) => pending[i] \in DOMAIN results'
               /\ \A j \in 1..Len(checks) :
                     (\A k \in 1..Len(checks) :
                         pending[k] = pending[j] => checks[k].status = "rejected")
                        => pending[j] \notin DOMAIN results'
        /\ (op = "pollAgents" /\ pc = "loop" /\ pc' = "awaiting")
            => \A id \in Requested :
                  id \notin DOMAIN results => \E i \in 1..Len(pending') : pending'[i] = id
      ]_vars

(***************************************************************************)
(* C4. pollAgents never rejects.                                           *)
(***************************************************************************)
C4_NeverRejects == op = "pollAgents" => pc # "rejected"

(***************************************************************************)
(* C5. An ID that the final sweep of pollAgents fetched, and whose final   *)
(* fetches returned a terminal status, is reported with that terminal      *)
(* record and not with the placeholder; also when the timeout is zero or   *)
(* negative.                                                               *)
(***************************************************************************)
C5_FinalSweepCaptures ==
    (op = "pollAgents" /\ pc = "returned") =>
        \A id \in Requested :
            (/\ SweptFinally(id)
             /\ \A i \in 1..Len(pending) :
                   pending[i] = id => TerminalCheck(checks[i]))
            => \A k \in 1..Len(ids) :
                  ids[k] = id =>
                     /\ result[k].status \in TERMINAL_STATUSES
                     /\ result[k] \in Delivered(id)

\* No regular tick ran (timeout <= 0) and the only look at the job, the
\* final sweep, found it FINISHED.
C5_Witness ==
    /\ op = "pollAgents" /\ pc = "returned"
    /\ timeoutMs <= 0 /\ ticks = 0
    /\ Len(ids) = 2
    /\ SweptFinally(ids[1])
    /\ result[1] = Agent(ids[1], "FINISHED")
    /\ result[2] = Placeholder(ids[2])

(***************************************************************************)
(* C6. pollAgents never has a fetch in flight for an ID that is already in *)
(* the resolved mapping; and when every requested ID is resolved it has no *)
(* fetch in flight and is not sleeping.                                    *)
(***************************************************************************)
C6_NoPollingOnceResolved ==
    op = "pollAgents" =>
        /\ pc \in {"awaiting", "finalAwaiting"} =>
              \A i \in 1..Len(pending) : pending[i] \notin DOMAIN results
        /\ (Len(ids) > 0 /\ Requested \subseteq DOMAIN results) =>
              pc \notin {"sleeping", "awaiting", "finalAwaiting"}

(***************************************************************************)
(* C7. When the requested IDs are a set (no ID twice), the timeout is      *)
(* positive and every ID resolved in tick 1, pollAgents has left the loop  *)
(* with zero sleeps and exactly one fetch per ID, and it returns the       *)
(* terminal records.                                                       *)
(***************************************************************************)
C7_AllTerminalFirstTick ==
    (/\ op = "pollAgents" /\ Len(ids) > 0 /\ Distinct(ids) /\ timeoutMs > 0
     /\ \A id \in Requested : id \in DOMAIN resolvedAt /\ resolvedAt[id] = 1)
    => /\ pc \in {"final", "returned"}
       /\ sleeps = 0
       /\ ticks = 1
       /\ \A id \in IDS : fetched[id] = IF id \in Requested THEN 1 ELSE 0
       /\ pc = "returned" =>
             \A i \in 1..Len(ids) : result[i] = results[ids[i]]
                                      /\ result[i].status \in TERMINAL_STATUSES

C7_Witness ==
    /\ op = "pollAgents" /\ pc = "returned"
    /\ Len(ids) = 3 /\ Distinct(ids)
    /\ \A id \in Requested : id \in DOMAIN resolvedAt /\ resolvedAt[id] = 1
    /\ sleeps = 0

(***************************************************************************)
(* C8. pollAgents on A, B, C: A first resolved FINISHED in tick 1, B first *)
(* resolved FAILED in tick 2, C not terminal in any fetch, the deadline    *)
(* passing in the second sleep.  Then the result is A FINISHED, B FAILED,  *)
(* C UNKNOWN, after exactly 2 sleeps.                                      *)
(***************************************************************************)
C8_ScenarioABC ==
    (/\ op = "pollAgents" /\ pc = "returned"
     /\ ids = <<"A", "B", "C">>
     /\ ticks = 2
     /\ DOMAIN resolvedAt = {"A", "B"}
     /\ resolvedAt["A"] = 1 /\ results["A"].status = "FINISHED"
     /\ resolvedAt["B"] = 2 /\ results["B"].status = "FAILED"
     /\ \A i \in 1..Len(checks) : ~TerminalCheck(checks[i]))
    => /\ result = <<Agent("A", "FINISHED"), Agent("B", "FAILED"),
                     Placeholder("C")>>
       /\ sleeps = 2

(***************************************************************************)
(* C9. pollAgent: when the final check (the one fetch issued after the     *)
(* deadline) returns a terminal status, the call returns that record and   *)
(* does not fail.                                                          *)
(***************************************************************************)
C9_FinalCheckSucceeds ==
    (/\ op = "pollAgent" /\ Done
     /\ SweptFinally(ids[1])
     /\ TerminalCheck(checks[1]))
    => /\ pc = "returned"
       /\ error = "none"
       /\ result = <<checks[1].value>>

\* RUNNING at the two checks before the deadline, FINISHED at the final one.
C9_Witness ==
    /\ op = "pollAgent" /\ pc = "returned"
    /\ ticks = 2 /\ sleeps = 2
    /\ SweptFinally(ids[1])
    /\ result = <<Agent(ids[1], "FINISHED")>>

(***************************************************************************)
(* C10. pollAgent ends with the polling-timeout error exactly when the     *)
(* final check was issued and returned an agent with a non-terminal        *)
(* status; the error names that status, and exactly one fetch was issued   *)
(* at or after the deadline.                                               *)
(***************************************************************************)
C10_TimeoutExactly ==
    op = "pollAgent" =>
        /\ Done =>
              (error = "Timeout"
                 <=> (SweptFinally(ids[1]) /\ NonTerminalCheck(checks[1])))
        /\ error = "Timeout" =>
              /\ pc = "rejected"
              /\ now >= deadline
              /\ lastStatus = checks[1].value.status
              /\ fetchedLate[ids[1]] = 1
              /\ fetched[ids[1]] = ticks + 1

C10_Witness ==
    /\ op = "pollAgent" /\ pc = "rejected"
    /\ error = "Timeout"
    /\ lastStatus = "CREATING"
    /\ ticks >= 1

-----------------------------------------------------------------------------
(***************************************************************************)
(* Vocabulary of the properties of the client.                             *)
(***************************************************************************)
ClientDone == op = "client" /\ pc \in {"returned", "rejected"}

ValidationError ==
    Error("Error", <<"Webhook secret must be at least 32 characters">>,
          <<>>, <<>>)

\* The call carried a webhook secret of fewer than 32 characters.
ShortSecret ==
    /\ fn = "launchAgent"
    /\ input.webhookSecret.given
    /\ input.webhookSecret.length < MinSecretLength

(***************************************************************************)
(* C11. Every call of launchAgent whose parameters carry a webhook secret  *)
(* shorter than 32 characters, with or without a webhook URL, fails with   *)
(* the local validation error, and no network request is issued for it.    *)
(***************************************************************************)
C11_ShortSecretFailsLocally ==
    (op = "client" /\ ShortSecret /\ pc # "called") =>
        /\ outcome = Throws(ValidationError)
        /\ netCalls = 0
        /\ ~sent.issued

\* The call got past the local validation of launchAgent.
ValidationPassed == fn = "launchAgent" => Webhook(input) # "invalid"

\* fetch delivered a response and response.text() delivered its body.
ResponseRead == response.reached /\ response.read

(***************************************************************************)
(* C14. Every client function issues exactly one network request per call  *)
(* (launchAgent once its validation passed), whether the request succeeds, *)
(* returns an error status or fails at transport level; a transport        *)
(* failure is raised as the network error, which carries no status code,   *)
(* and the request is not issued again.                                    *)
(***************************************************************************)
C14_ExactlyOneRequest ==
    op = "client" =>
        /\ netCalls <= 1
        /\ (pc # "called" /\ ValidationPassed) => netCalls = 1
        /\ (pc # "called" /\ response = TransportFailure) =>
              /\ pc = "rejected"
              /\ outcome.status = "rejected"
              /\ outcome.err.message[1] = "Network error calling "
              /\ outcome.err.status = <<>>
              /\ netCalls = 1

C14_Witness ==
    /\ ClientDone
    /\ fn = "stopAgent"
    /\ response = TransportFailure
    /\ outcome.status = "rejected"
    /\ netCalls = 1

\* The message a failure body carries: its `message`, else its `error`.
ExtractedMessage(text) ==
    CASE text \in {"{message:m}", "{message:m,error:e}"} -> "m"
      [] text = "{error:e}" -> "e"
      [] OTHER -> ""

\* Preference order: extracted message, raw body text, generic phrase.
PreferredMessage(text, code) ==
    IF ExtractedMessage(text) # "" THEN <<ExtractedMessage(text)>>
    ELSE IF text # "" THEN <<text>>
    ELSE <<"HTTP ", CodeText(code)>>

\* The guidance added around the message for the well-known codes.
Guidance ==
    [c \in {401, 403, 404, 429} |->
        CASE c = 401 -> <<"Authentication failed: ", ". Check CURSOR_API_KEY.">>
          [] c = 403 -> <<"Forbidden: ",
                          ". Ensure the GitHub App is installed on this repo.">>
          [] c = 404 -> <<"Not found: ", ". Agent may have been deleted.">>
          [] OTHER -> <<"Rate limit exceeded: ", ". Back off and retry.">>]

C16_NoBodyIsEmptyObject ==
    (ClientDone /\ ResponseRead /\ Ok(response.code) /\ response.text = "") =>
        outcome = Resolves(EmptyObject)

(***************************************************************************)
(* C17. When a response has a success status and a body that does not      *)
(* parse as JSON, request returns null and raises no failure; no response  *)
(* with a success status whose body was read ends in a failure.            *)
(***************************************************************************)
C17_UnparseableSuccessIsNull ==
    (ClientDone /\ ResponseRead /\ Ok(response.code)) =>
        /\ outcome.status = "fulfilled"
        /\ (response.text # "" /\ ~Parses(response.text)) =>
              outcome = Resolves(JsonNull)

C17_Witness ==
    /\ ClientDone
    /\ response.code = 200
    /\ response.text = "<html>"
    /\ response.read
    /\ outcome = Resolves(JsonNull)

(***************************************************************************)
(* C18. For every integer limit passed to listAgents, the limit sent in    *)
(* the request is at most 100: it is the given limit when that is 100 or   *)
(* less, and 100 otherwise.                                                *)
(***************************************************************************)
C18_LimitClamped ==
    (op = "client" /\ fn = "listAgents" /\ sent.issued /\ input.limit # <<>>) =>
        /\ sent.limit[1] <= 100
        /\ sent.limit = <<IF input.limit[1] <= 100 THEN input.limit[1] ELSE 100>>

C18_Witness ==
    /\ op = "client"
    /\ fn = "listAgents"
    /\ sent.issued
    /\ input.limit[1] > 100
    /\ sent.limit = <<100>>

-----------------------------------------------------------------------------
\* A settled fetch that delivered an agent whose status is none of FINISHED,
\* STOPPED, FAILED: CREATING, RUNNING, an unrecognised string or no status.
OutsideTerminalSet(c) ==
    /\ c.status = "fulfilled"
    /\ c.value.kind = "object"
    /\ c.value.status \notin {"FINISHED", "STOPPED", "FAILED"}

\* Another fetch of the same tick delivered a terminal status for the ID.
SiblingTerminal(id) ==
    \E j \in 1..Len(pending) :
        /\ pending[j] = id
        /\ checks[j].status = "fulfilled"
        /\ checks[j].value.kind = "object"
        /\ checks[j].value.status \in {"FINISHED", "STOPPED", "FAILED"}

(***************************************************************************)
(* C13. In pollAgent and pollAgents, during the ticks before the deadline, *)
(* a fetch that returns a status outside FINISHED, STOPPED, FAILED         *)
(* (CREATING, RUNNING, an unrecognised string, a missing status) does not  *)
(* resolve its ID and does not stop the wait: the tick ends in the sleep   *)
(* (in pollAgents unless a sibling fetch delivered null, which throws),    *)
(* the sleep leaves the resolved mapping alone, and the next tick fetches  *)
(* every ID that is not resolved.                                          *)
(***************************************************************************)
C13_NonTerminalKeepsPolling ==
    [][/\ (op \in {"pollAgent", "pollAgents"} /\ pc = "awaiting"
              /\ pc' # "awaiting") =>
            \A i \in 1..Len(pending) :
                OutsideTerminalSet(checks[i]) =>
                    /\ pending[i] \in DOMAIN results' =>
                          SiblingTerminal(pending[i])
                    /\ pc' \notin {"returned", "final"}
                    /\ \/ pc' = "sleeping"
                       \/ /\ op = "pollAgents"
                          /\ pc' = "rejected"
                          /\ \E j \in 1..Len(pending) :
                                checks[j] = Fulfilled(NullValue)
       /\ pc = "sleeping" => (pc' = "loop" /\ results' = results)
       /\ (pc = "loop" /\ pc' = "awaiting") =>
            \A id \in Requested \ DOMAIN results :
                \E j \in 1..Len(pending') : pending'[j] = id
      ]_vars

\* pollAgent is in its second tick: the first fetch delivered a status that
\* was neither terminal nor a failure, the sleep followed, A is fetched again
\* and the answer has no status.
C13_Witness ==
    /\ op = "pollAgent"
    /\ pc = "awaiting"
    /\ ticks = 2
    /\ fetched["A"] = 2
    /\ sleeps = 1
    /\ checks = <<Fulfilled(Agent("A", "undefined"))>>

-----------------------------------------------------------------------------
\* ceil(timeoutMs / intervalMs), and 0 for a timeout that is not positive.
CeilTimeoutOverInterval ==
    IF timeoutMs <= 0 THEN 0
    ELSE (timeoutMs + intervalMs - 1) \div intervalMs

\* At most one final sweep was issued: no ID was fetched after the deadline
\* more often than it occurs in the requested list.
AtMostOneFinalSweep == \A id \in IDS : fetchedLate[id] <= Count(ids, id)

(***************************************************************************)
(* C19. pollAgents terminates.  When every issued fetch settles and every  *)
(* sleep advances the clock by at least the interval, every call ends,     *)
(* after at most ceil(timeout/interval) regular ticks followed by at most  *)
(* one final sweep, whatever the fetches deliver (IDs that never become    *)
(* terminal or always fail included); once it has ended nothing more is    *)
(* fetched.  The end is the return of the result list, or the TypeError of *)
(* a payload that is null.                                                 *)
(***************************************************************************)
C19_Terminates ==
    /\ [](op = "pollAgents" =>
            /\ ticks <= CeilTimeoutOverInterval
            /\ AtMostOneFinalSweep)
    /\ (op = "pollAgents") ~> (op = "pollAgents" /\ Done)
    /\ [][(op = "pollAgents" /\ Done) => UNCHANGED <<ticks, fetched, sleeps>>]_vars

\* A call that ended by returning after the largest number of regular ticks
\* its timeout allows and one final sweep, with an ID that always failed.
C19_Witness ==
    /\ op = "pollAgents"
    /\ pc = "returned"
    /\ timeoutMs = MaxTimeout
    /\ intervalMs = 1
    /\ ticks = CeilTimeoutOverInterval
    /\ fetchedLate["A"] = 1
    /\ result[1] = Placeholder("A")

-----------------------------------------------------------------------------
-----------------------------------------------------------------------------
\* The command line has exited after making client calls.
Exited == op = "cli" /\ pc = "exited"

\* A client call made by the command rejected.
SomeCallRejected == \E i \in 1..Len(calls) : calls[i] = "rejected"

-----------------------------------------------------------------------------
\* Some fetch of the current fan-out has not settled.
SomeInFlight == \E i \in 1..Len(checks) : checks[i] = InFlight

\* First position of the fan-out whose fetch delivered null, or one past
\* the end: the loop over the settled fetches stops there.
FirstNull ==
    LET nulls == {i \in 1..Len(checks) : checks[i] = Fulfilled(NullValue)}
    IN  IF nulls = {} THEN Len(checks) + 1
        ELSE CHOOSE i \in nulls : \A j \in nulls : i <= j

\* Positions of the fan-out, before the first null, that delivered a
\* terminal record for id.
TerminalPositions(id) ==
    {j \in 1..Len(pending) :
        j < FirstNull /\ pending[j] = id /\ TerminalCheck(checks[j])}

\* What a regular tick leaves in the resolved mapping, told from the
\* settled values by their position in the fan-out alone.
TickOutcome ==
    LET hit == {id \in IDS : TerminalPositions(id) # {}}
    IN  [id \in (DOMAIN results) \cup hit |->
            IF id \in hit
            THEN checks[CHOOSE j \in TerminalPositions(id) :
                            \A k \in TerminalPositions(id) : k <= j].value
            ELSE results[id]]

(***************************************************************************)
(* C21. Within a tick of pollAgents every fetch of the pending IDs is      *)
(* issued before any is awaited (the fan-out leaves all of them in         *)
(* flight), and the resolved mapping is written only once every fetch of   *)
(* the tick has settled: it never changes while a fetch of the tick is in  *)
(* flight, a settling fetch touches its own promise only, and what the     *)
(* tick stores is a function of the settled values by position, whatever   *)
(* the order in which the siblings settled.                                *)
(***************************************************************************)
C21_FanOutFanIn ==
    [][op = "pollAgents" =>
          /\ (pc = "loop" /\ pc' = "awaiting") =>
                /\ pending' = NotInResults(results)
                /\ \A i \in 1..Len(pending') : checks'[i] = InFlight
          /\ SomeInFlight => (results' = results /\ pc' = pc)
          /\ (pc = "awaiting" /\ pc' = "awaiting") =>
                \E i \in 1..Len(checks) :
                    /\ checks[i] = InFlight
                    /\ checks'[i] # InFlight
                    /\ \A j \in 1..Len(checks) : j # i => checks'[j] = checks[j]
          /\ (pc = "awaiting" /\ pc' # "awaiting") => results' = TickOutcome
      ]_vars

\* Two fetches were issued; the second settled first, with a terminal
\* record, and nothing is stored while the first is in flight.
C21_Witness ==
    /\ op = "pollAgents"
    /\ pc = "awaiting"
    /\ pending = <<"A", "B">>
    /\ checks[1] = InFlight
    /\ TerminalCheck(checks[2])
    /\ results = EmptyMap

-----------------------------------------------------------------------------
-----------------------------------------------------------------------------
(***************************************************************************)
(* C23. pollAgent absorbs no fetch failure: when its fetch fails, in a     *)
(* regular tick or in the final check, the wait ends in that step with the *)
(* reason of the failed fetch as the reason of the rejection, unchanged;   *)
(* no sleep and no fetch follows.                                          *)
(***************************************************************************)
C23_FirstFailurePropagates ==
    [][op = "pollAgent" =>
          /\ (pc \in {"awaiting", "finalAwaiting"} /\ AllSettled
                /\ checks[1].status = "rejected") =>
                /\ pc' = "rejected"
                /\ error' = checks[1].reason
                /\ error' \in FetchErrors
                /\ sleeps' = sleeps
                /\ fetched' = fetched
          /\ pc = "rejected" =>
                (pc' = "rejected" /\ sleeps' = sleeps /\ fetched' = fetched
                    /\ error' = error)
      ]_vars

\* The second fetch of pollAgent, made after one sleep, failed with the
\* error of a non-ok response, and that is what the caller got.
C23_Witness ==
    /\ op = "pollAgent"
    /\ pc = "rejected"
    /\ error = "HttpError"
    /\ ticks = 2
    /\ sleeps = 1
    /\ fetched["A"] = 2
    /\ fetchedLate["A"] = 0

-----------------------------------------------------------------------------
(***************************************************************************)
(* C24. pollAgent stops the moment a terminal status is observed: when a   *)
(* fetch returns FINISHED, STOPPED or FAILED, the function returns that    *)
(* record in the same step, and no sleep and no fetch follows; before the  *)
(* deadline there is exactly one sleep, of at least the interval, between  *)
(* two consecutive fetches.                                                *)
(***************************************************************************)
C24_StopsAtTerminal ==
    [][op = "pollAgent" =>
          /\ (pc \in {"awaiting", "finalAwaiting"} /\ AllSettled
                /\ checks[1].status = "fulfilled"
                /\ checks[1].value.kind = "object"
                /\ checks[1].value.status \in {"FINISHED", "STOPPED", "FAILED"}) =>
                /\ pc' = "returned"
                /\ result' = <<checks[1].value>>
                /\ sleeps' = sleeps
                /\ fetched' = fetched
          /\ pc = "returned" =>
                (pc' = "returned" /\ sleeps' = sleeps /\ fetched' = fetched
                    /\ result' = result)
          /\ (pc = "loop" /\ pc' = "awaiting") =>
                (sleeps = ticks /\ fetched["A"] = ticks /\ ticks' = ticks + 1)
          /\ pc = "sleeping" =>
                (sleeps = ticks - 1 /\ sleeps' = ticks /\ now' >= now + intervalMs)
      ]_vars

\* The second fetch of pollAgent, made one sleep after the first, returned
\* STOPPED, and the function returned that record.
C24_Witness ==
    /\ op = "pollAgent"
    /\ pc = "returned"
    /\ result = <<Agent("A", "STOPPED")>>
    /\ ticks = 2
    /\ sleeps = 1
    /\ fetched["A"] = 2
    /\ fetchedLate["A"] = 0

-----------------------------------------------------------------------------
\* id was still pending when the loop was left, and every fetch the final
\* sweep issued for it failed.
NeverAnswered(id) ==
    /\ id \in Requested
    /\ id \notin DOMAIN resolvedAt
    /\ SweptFinally(id)
    /\ \A j \in 1..Len(pending) : pending[j] = id => checks[j].status = "rejected"

(***************************************************************************)
(* C25. In the list pollAgents returns, a requested ID that no regular     *)
(* tick resolved and whose fetches in the final sweep all failed (so, in   *)
(* particular, an ID whose every fetch failed) is reported, at each of its *)
(* positions, as the record with exactly that ID and status UNKNOWN, and   *)
(* no entry at any other position carries that ID.                         *)
(***************************************************************************)
C25_AlwaysFailingIsPlaceholder ==
    (op = "pollAgents" /\ pc = "returned") =>
        \A id \in IDS :
            NeverAnswered(id) =>
                /\ \A i \in 1..Len(ids) :
                      ids[i] = id =>
                          result[i] = [kind |-> "object", id |-> id,
                                       status |-> "UNKNOWN"]
                /\ \A i \in 1..Len(result) : result[i].id = id => ids[i] = id
                /\ id \notin DOMAIN results

\* A failed in two regular ticks' time and in the final sweep while B was
\* resolved: the result lists the placeholder of A and the record of B.
C25_Witness ==
    /\ op = "pollAgents"
    /\ pc = "returned"
    /\ ids = <<"A", "B">>
    /\ ticks = 2
    /\ NeverAnswered("A")
    /\ fetched["A"] = 3
    /\ result[1] = Placeholder("A")
    /\ result[2].status \in TERMINAL_STATUSES

-----------------------------------------------------------------------------
\* --tasks is an array in which some task has no prompt.
SomeTaskLacksPrompt ==
    /\ cmd = "team"
    /\ cliInput.list.json = "array"
    /\ \E i \in 1..Len(cliInput.list.items) : ~cliInput.list.items[i]

(***************************************************************************)
(* C26. `team` validates all tasks before launching any: when some task of *)
(* the list lacks a prompt, at whatever position, the process exits with   *)
(* an error payload and a non-zero code, and no launch was issued.         *)
(***************************************************************************)
C26_TeamValidatesFirst ==
    (op = "cli" /\ SomeTaskLacksPrompt) =>
        /\ calls = <<>>
        /\ pc \in {"main", "exited"}
        /\ pc = "exited" =>
              /\ Len(stderr) = 1
              /\ stdout = <<>>
              /\ exitCode = 1
              /\ (cliInput.apiKey /\ cliInput.args) =>
                    stderr = <<[error |-> MissingPrompt]>>

\* Two tasks, the second without a prompt: the error is printed and the
\* first task was not launched.
C26_Witness ==
    /\ Exited
    /\ cmd = "team"
    /\ cliInput.apiKey
    /\ cliInput.args
    /\ cliInput.list = [json |-> "array", items |-> <<TRUE, FALSE>>]
    /\ stderr = <<[error |-> MissingPrompt]>>
    /\ exitCode = 1
    /\ calls = <<>>

-----------------------------------------------------------------------------
(***************************************************************************)
(* C27. Every pollAgents session fetches every requested ID at least once, *)
(* for every timeout, zero and negative included: when the call has ended  *)
(* each requested ID has had a fetch issued, and no entry of the returned  *)
(* list is the UNKNOWN placeholder of an ID that was never fetched.        *)
(***************************************************************************)
C27_AtLeastOneLook ==
    (op = "pollAgents" /\ Done) =>
        /\ \A id \in Requested : fetched[id] >= 1
        /\ pc = "returned" =>
              \A i \in 1..Len(result) :
                  result[i].status = "UNKNOWN" => fetched[ids[i]] >= 1

\* A negative timeout: no regular tick, and still A and B were each
\* fetched, by the final sweep, before A was reported as UNKNOWN.
C27_Witness ==
    /\ op = "pollAgents"
    /\ pc = "returned"
    /\ timeoutMs < 0
    /\ ids = <<"A", "B">>
    /\ ticks = 0
    /\ fetched["A"] = 1
    /\ fetched["B"] = 1
    /\ result[1] = Placeholder("A")

-----------------------------------------------------------------------------
(***************************************************************************)
(* C28. In pollAgents the resolved mapping only grows: no step removes a   *)
(* key or replaces a stored record, neither a later tick nor the final     *)
(* sweep; its keys are requested IDs; and through the regular ticks, up to *)
(* the final sweep, every record stored in it has a terminal status.       *)
(***************************************************************************)
C28_ResolvedOnlyGrows ==
    [][op = "pollAgents" =>
          /\ DOMAIN results \subseteq DOMAIN results'
          /\ \A id \in DOMAIN results : results'[id] = results[id]
          /\ DOMAIN results' \subseteq Requested
          /\ pc # "finalAwaiting" =>
                \A id \in DOMAIN results' :
                    /\ results'[id].kind = "object"
                    /\ results'[id].id = id
                    /\ results'[id].status \in {"FINISHED", "STOPPED", "FAILED"}
      ]_vars

\* B was resolved in the first tick; a second tick and the final sweep
\* for A followed, and the record of B is the one stored in the first tick.
C28_Witness ==
    /\ op = "pollAgents"
    /\ pc = "returned"
    /\ ids = <<"A", "B">>
    /\ ticks = 2
    /\ "B" \in DOMAIN resolvedAt
    /\ resolvedAt["B"] = 1
    /\ SweptFinally("A")
    /\ results["B"] = Agent("B", "FAILED")
    /\ "A" \in DOMAIN results

-----------------------------------------------------------------------------
(***************************************************************************)
(* C29. For every requested ID list, lists with a repeated ID included,    *)
(* the early-exit check of pollAgents leaves the loop in the tick in which *)
(* the last pending ID became resolved, so that no sleep follows once      *)
(* every requested ID is resolved; and in the result each occurrence of a  *)
(* repeated ID gets the same record.                                       *)
(***************************************************************************)
C29_EarlyExitSameTick ==
    [][op = "pollAgents" =>
          /\ (pc = "awaiting" /\ pc' \notin {"awaiting", "rejected"}
                /\ Requested \subseteq DOMAIN results') => pc' = "final"
          /\ Requested \subseteq DOMAIN results => sleeps' = sleeps
          /\ pc' = "returned" =>
                \A i, j \in 1..Len(ids) : ids[i] = ids[j] => result'[i] = result'[j]
      ]_vars

-----------------------------------------------------------------------------
\* The tasks of --tasks, once `team` has passed its checks.
Tasks == cliInput.list.items

\* The launches that succeeded, as positions of the task list.
Succeeded == {i \in 1..Len(calls) : calls[i] = "object"}

(***************************************************************************)
(* C30. `team` issues exactly one launch per task, all of them before any  *)
(* has settled; each launch settles on its own, so that a failed launch    *)
(* neither prevents nor cancels another.  In the output, summary.total is  *)
(* the number of tasks and equals summary.launched + summary.failed,       *)
(* `agents` has one entry per task in task order, and `ids` lists exactly  *)
(* the IDs of the successful launches, in task order.                      *)
(***************************************************************************)
C30_TeamLaunchesEveryTask ==
    [][(op = "cli" /\ cmd = "team") =>
          /\ (pc = "main" /\ pc' = "handler") =>
                /\ Len(calls') = Len(Tasks)
                /\ \A i \in 1..Len(calls') : calls'[i] = "pending"
          /\ (pc = "handler" /\ pc' = "handler") =>
                \E i \in 1..Len(calls) :
                    /\ calls[i] = "pending"
                    /\ calls'[i] # "pending"
                    /\ \A j \in 1..Len(calls) : j # i => calls'[j] = calls[j]
          /\ (pc = "handler" /\ pc' = "exited") =>
                /\ calls' = calls
                /\ \A i \in 1..Len(calls) : calls[i] # "pending"
                /\ exitCode' = 0
                /\ Len(stdout') = 1
                /\ LET out == stdout'[1] IN
                      /\ out.summary.total = Len(Tasks)
                      /\ out.summary.total =
                            out.summary.launched + out.summary.failed
                      /\ out.summary.launched = Cardinality(Succeeded)
                      /\ Len(out.agents) = Len(Tasks)
                      /\ \A i \in 1..Len(Tasks) :
                            /\ out.agents[i].success <=> i \in Succeeded
                            /\ i \in Succeeded =>
                                  out.agents[i].id = LaunchedId(i)
                      /\ Len(out.ids) = Cardinality(Succeeded)
                      /\ \A i \in Succeeded :
                            \E k \in 1..Len(out.ids) : out.ids[k] = LaunchedId(i)
                      /\ \A k, l \in 1..Len(out.ids) :
                            k < l => out.ids[k][2] < out.ids[l][2]
      ]_vars

\* Two tasks: the first launch failed after the second had succeeded, and
\* the summary counts both.
C30_Witness ==
    /\ Exited
    /\ cmd = "team"
    /\ calls = <<"rejected", "object">>
    /\ exitCode = 0
    /\ Len(stdout) = 1
    /\ stdout[1].ids = <<LaunchedId(2)>>
    /\ stdout[1].agents[2].success
    /\ ~stdout[1].agents[1].success

-----------------------------------------------------------------------------
\* The IDs of --ids, once `team-status` has passed its checks.
RequestedIds == cliInput.list.items

\* The sum of the counts of a summary.
RECURSIVE SumOver(_, _)
SumOver(f, keys) ==
    IF keys = {} THEN 0
    ELSE LET k == CHOOSE x \in keys : TRUE
         IN  f[k] + SumOver(f, keys \ {k})

(***************************************************************************)
(* C31. `team-status` issues exactly one fetch per requested ID and        *)
(* reports one entry per requested ID, in request order: the entry of an   *)
(* ID whose fetch failed carries that ID and status ERROR, the entry of    *)
(* every other ID carries its ID and the status its fetch delivered,       *)
(* whatever the other fetches did, and the per-status counts of the        *)
(* summary add up to the number of requested IDs.                          *)
(***************************************************************************)
C31_OneEntryPerId ==
    (Exited /\ cmd = "team-status" /\ calls # <<>>) =>
        /\ Len(calls) = Len(RequestedIds)
        /\ \A i \in 1..Len(calls) : calls[i] # "pending"
        /\ Len(stdout) = 1
        /\ stderr = <<>>
        /\ exitCode = 0
        /\ Len(stdout[1].agents) = Len(RequestedIds)
        /\ \A i \in 1..Len(RequestedIds) :
              /\ stdout[1].agents[i].id = RequestedIds[i]
              /\ calls[i] = "rejected" => stdout[1].agents[i].status = "ERROR"
              /\ calls[i] \in Statuses => stdout[1].agents[i].status = calls[i]
        /\ SumOver(stdout[1].summary, DOMAIN stdout[1].summary) =
              Len(RequestedIds)

=============================================================================
